---- MODULE Spec2Model ----
(***************************************************************************)
(* Model of LecturerSentimentAnalyzer (lecturer_sentiment_analyzer.py) and *)
(* of the /api/analyze endpoint that shares one analyzer (main.py).        *)
(*                                                                         *)
(* Texts are sequences of one-character strings, so that strip, split,     *)
(* count and tokenisation are computed character by character, as the      *)
(* Python string methods compute them.  Floats are exact rationals         *)
(* <<numerator, denominator>> with a positive denominator: arithmetic is   *)
(* exact, the rounding of binary floating point is not modelled.           *)
(***************************************************************************)
EXTENDS Integers, Sequences, FiniteSets, TLC

(***************************************************************************)
(* Bounds of the model.                                                    *)
(***************************************************************************)
\* longest transcript, in whitespace-separated words, a file or a text has
MaxWords == 2
\* most chunks one live session recognises
MaxChunks == 2
\* the wall clock runs from 1 to MaxTime seconds
MaxTime == 2

(***************************************************************************)
(* Characters and Python string methods.                                   *)
(***************************************************************************)
LowerLetters ==
    {"a", "b", "c", "d", "e", "f", "g", "h", "i", "j", "k", "l", "m",
     "n", "o", "p", "q", "r", "s", "t", "u", "v", "w", "x", "y", "z"}

UpperToLower ==
    [A |-> "a", B |-> "b", C |-> "c", D |-> "d", E |-> "e", F |-> "f",
     G |-> "g", H |-> "h", I |-> "i", J |-> "j", K |-> "k", L |-> "l",
     M |-> "m", N |-> "n", O |-> "o", P |-> "p", Q |-> "q", R |-> "r",
     S |-> "s", T |-> "t", U |-> "u", V |-> "v", W |-> "w", X |-> "x",
     Y |-> "y", Z |-> "z"]

Whitespace == {" "}

\* the characters of str.strip('.,!?')
StripChars == {".", ",", "!", "?"}

\* str.lower() on one character
LowerChar(c) == IF c \in DOMAIN UpperToLower THEN UpperToLower[c] ELSE c

\* str.lower()
Lower(s) == [i \in 1..Len(s) |-> LowerChar(s[i])]

\* str.isalpha(): non-empty and every character a letter
IsAlpha(s) ==
    /\ Len(s) > 0
    /\ \A i \in 1..Len(s) : LowerChar(s[i]) \in LowerLetters

\* the concatenation of items[lo], ..., items[hi], by halves
RECURSIVE Gather(_, _, _)
Gather(items, lo, hi) ==
    IF lo > hi THEN <<>>
    ELSE IF lo = hi THEN items[lo]
    ELSE LET mid == (lo + hi) \div 2
         IN  Gather(items, lo, mid) \o Gather(items, mid + 1, hi)

\* str.strip(chars); str.strip() is StripOf(s, Whitespace)
StripOf(s, chars) ==
    LET n == Len(s)
    IN  IF \A i \in 1..n : s[i] \in chars THEN <<>>
        ELSE SubSeq(s,
                 CHOOSE i \in 1..n :
                    s[i] \notin chars /\ \A j \in 1..(i - 1) : s[j] \in chars,
                 CHOOSE i \in 1..n :
                    s[i] \notin chars /\ \A j \in (i + 1)..n : s[j] \in chars)

\* the pieces of s, in order, for a classification cls of its positions into
\* "sep", "single" (a piece of its own), "word" and "begin" (a word character
\* that starts a new piece): a piece is a "single" character or a maximal run
\* of word characters with no "begin" after its first
Pieces(s, cls) ==
    LET n == Len(s)
        starts(i) == \/ cls[i] \in {"single", "begin"}
                     \/ cls[i] = "word"
                           /\ (i = 1 \/ cls[i - 1] \notin {"word", "begin"})
        end(a) == IF cls[a] = "single" THEN a
                  ELSE CHOOSE b \in a..n :
                         /\ (b = n \/ cls[b + 1] # "word")
                         /\ \A j \in (a + 1)..b : cls[j] = "word"
    IN  Gather([i \in 1..n |->
                   IF starts(i) THEN <<SubSeq(s, i, end(i))>> ELSE <<>>],
               1, n)

\* str.split(): split on runs of whitespace, no empty pieces
SplitWs(s) ==
    Pieces(s, [i \in 1..Len(s) |->
                  IF s[i] \in Whitespace THEN "sep" ELSE "word"])

\* the non-empty pieces of str.split(sep) for a one-character separator
SplitOn(s, sep) ==
    Pieces(s, [i \in 1..Len(s) |-> IF s[i] = sep THEN "sep" ELSE "word"])

\* str.count(c)
CountChar(s, c) == Cardinality({i \in 1..Len(s) : s[i] = c})

\* len(set(seq))
Distinct(seq) == Cardinality({seq[i] : i \in 1..Len(seq)})

\* [x for x in seq if Keep(x)]
SelectSeqBy(seq, Keep(_)) ==
    Gather([i \in 1..Len(seq) |->
               IF Keep(seq[i]) THEN <<seq[i]>> ELSE <<>>],
           1, Len(seq))

\* str.join with single spaces
RECURSIVE JoinWords(_)
JoinWords(ws) ==
    IF ws = <<>> THEN <<>>
    ELSE IF Len(ws) = 1 THEN ws[1]
    ELSE ws[1] \o <<" ">> \o JoinWords(Tail(ws))

(***************************************************************************)
(* nltk.word_tokenize on the characters the model's texts are made of:     *)
(* tokens are separated at whitespace; each of , ! ? : ; is a token of its *)
(* own; a '.' that ends a word is a token of its own (the sentence         *)
(* tokenizer breaks there), a '.' inside a word stays in it; the clitics   *)
(* 's 'm 'd 'll 're 've and n't at the end of a word are tokens of their   *)
(* own.                                                                    *)
(***************************************************************************)
Punctuation == {",", "!", "?", ":", ";"}

Clitics ==
    {<<"'", "s">>, <<"'", "m">>, <<"'", "d">>, <<"'", "l", "l">>,
     <<"'", "r", "e">>, <<"'", "v", "e">>, <<"n", "'", "t">>}

\* a '.' at position i of s that ends a word
EndsWord(s, i) == s[i] = "." /\ (i = Len(s) \/ s[i + 1] \in Whitespace)

\* position i of s is behind the last character of a word
AtWordEnd(s, i) ==
    \/ i > Len(s)
    \/ s[i] \in Whitespace \cup Punctuation
    \/ EndsWord(s, i)

\* a clitic starts at position i of s, inside a word, and ends the word
CliticAt(s, i) ==
    /\ i > 1
    /\ s[i - 1] \notin Whitespace \cup Punctuation \cup {"'"}
    /\ \E c \in Clitics :
         /\ i + Len(c) - 1 <= Len(s)
         /\ Lower(SubSeq(s, i, i + Len(c) - 1)) = c
         /\ AtWordEnd(s, i + Len(c))

WordTokenize(s) ==
    Pieces(s, [i \in 1..Len(s) |->
                  IF s[i] \in Whitespace THEN "sep"
                  ELSE IF s[i] \in Punctuation THEN "single"
                  ELSE IF EndsWord(s, i) THEN "single"
                  ELSE IF CliticAt(s, i) THEN "begin"
                  ELSE "word"])

(***************************************************************************)
(* Lexicons (__init__).                                                    *)
(***************************************************************************)
filler_words ==
    {<<"u", "m">>,
     <<"u", "h">>,
     <<"l", "i", "k", "e">>,
     <<"y", "o", "u", " ", "k", "n", "o", "w">>,
     <<"s", "o">>,
     <<"a", "c", "t", "u", "a", "l", "l", "y">>,
     <<"b", "a", "s", "i", "c", "a", "l", "l", "y">>,
     <<"l", "i", "t", "e", "r", "a", "l", "l", "y">>,
     <<"w", "e", "l", "l">>,
     <<"o", "k", "a", "y">>}

\* the fallback list of __init__; the corpus list, when it loads, holds the
\* one stopword of the model's vocabulary ("the") as well
stop_words ==
    {<<"t", "h", "e">>, <<"a">>, <<"a", "n">>, <<"a", "n", "d">>,
     <<"o", "r">>, <<"b", "u", "t">>, <<"i", "n">>, <<"o", "n">>,
     <<"a", "t">>, <<"t", "o">>, <<"f", "o", "r">>, <<"o", "f">>,
     <<"w", "i", "t", "h">>, <<"b", "y">>, <<"i", "s">>, <<"a", "r", "e">>,
     <<"w", "a", "s">>, <<"w", "e", "r", "e">>, <<"b", "e">>,
     <<"b", "e", "e", "n">>, <<"h", "a", "v", "e">>, <<"h", "a", "s">>,
     <<"h", "a", "d">>, <<"d", "o">>, <<"d", "o", "e", "s">>,
     <<"d", "i", "d">>, <<"w", "i", "l", "l">>, <<"w", "o", "u", "l", "d">>,
     <<"c", "o", "u", "l", "d">>, <<"s", "h", "o", "u", "l", "d">>, <<"i">>,
     <<"y", "o", "u">>, <<"h", "e">>, <<"s", "h", "e">>, <<"i", "t">>,
     <<"w", "e">>, <<"t", "h", "e", "y">>, <<"m", "e">>, <<"h", "i", "m">>,
     <<"h", "e", "r">>, <<"u", "s">>, <<"t", "h", "e", "m">>}

(***************************************************************************)
(* Inputs: the words transcripts are made of, and the texts.               *)
(***************************************************************************)
\* "Um," (a filler with punctuation), "the" (a stopword), "deep" (a content
\* word) and "idea." (a content word that ends a sentence)
Vocabulary ==
    {<<"U", "m", ",">>, <<"t", "h", "e">>, <<"d", "e", "e", "p">>,
     <<"i", "d", "e", "a", ".">>}

WordSeqs == UNION {[1..n -> Vocabulary] : n \in 0..MaxWords}

\* every text of at most MaxWords words joined by single spaces ("" included)
Texts == {JoinWords(ws) : ws \in WordSeqs}

\* Python's None, where a text is expected
NoneValue == <<"<None>">>

\* an empty dict
EmptyDict == [k \in {} |-> 0]

\* dict.get(key, default)
Get(d, k, default) == IF k \in DOMAIN d THEN d[k] ELSE default

(***************************************************************************)
(* Floats as exact rationals <<n, d>>, d > 0.                              *)
(***************************************************************************)
Rat(n, d) == <<n, d>>
RLt(a, b) == a[1] * b[2] < b[1] * a[2]
RGt(a, b) == RLt(b, a)
RLe(a, b) == ~RLt(b, a)
REq(a, b) == a[1] * b[2] = b[1] * a[2]
RMax(a, b) == IF RLt(a, b) THEN b ELSE a
\* a / b for b > 0
RDiv(a, b) == <<a[1] * b[2], a[2] * b[1]>>

(***************************************************************************)
(* safe_tokenize: word_tokenize(text.lower()), or text.lower().split()     *)
(* when the tokenizer raises (nltk_ok = FALSE: its resources are missing). *)
(***************************************************************************)
safe_tokenize(text, nltk_ok) ==
    IF nltk_ok THEN WordTokenize(Lower(text))
    ELSE SplitWs(Lower(text))

\* IsFiller without the strip of '.,!?'
IsFillerUnstripped(word) == Lower(word) \in filler_words

\* word.lower().strip('.,!?') in self.filler_words
IsFiller(word) == StripOf(Lower(word), StripChars) \in filler_words

\* sum(1 for word in words if word.lower().strip('.,!?') in self.filler_words)
FillerCount(words) == Len(SelectSeqBy(words, IsFiller))

IsContentWord(w) == Lower(w) \notin stop_words /\ IsAlpha(w) /\ Len(w) > 2

\* [w.lower() for w in words if ... ]
ContentWords(words) ==
    LET kept == SelectSeqBy(words, IsContentWord)
    IN  [i \in 1..Len(kept) |-> Lower(kept[i])]

NonBlank(s) == StripOf(s, Whitespace) # <<>>

\* [s.strip() for s in text.split('.') if s.strip()]
Sentences(text) == SelectSeqBy(SplitOn(text, "."), NonBlank)

\* max(1, n)
AtLeastOne(n) == IF n < 1 THEN 1 ELSE n

\* EstimatedDuration taking the elapsed time as it is
EstimatedDurationElapsedOnly(word_count, start_time, now) ==
    IF start_time # 0
    THEN Rat(now - start_time, 1)
    ELSE RMax(Rat(60, 1), Rat(2 * word_count, 5))

\* the duration estimate of calculate_metrics: start_time is 0 for None
EstimatedDuration(word_count, start_time, now) ==
    IF start_time # 0
    THEN RMax(Rat(now - start_time, 1), Rat(2 * word_count, 5))
    ELSE RMax(Rat(60, 1), Rat(2 * word_count, 5))

\* (word_count / estimated_duration) * 60 if estimated_duration > 0 else 0
SpeakingRate(word_count, duration) ==
    IF duration[1] > 0 THEN RDiv(Rat(word_count * 60, 1), duration)
    ELSE Rat(0, 1)

\* n / d if d > 0 else 0
RatioOrZero(n, d) == IF d > 0 THEN Rat(n, d) ELSE Rat(0, 1)

\* VocabularyRichness with the basic-metrics default for no content words
VocabularyRichnessDefaultHalf(unique_words, content_word_count) ==
    IF content_word_count > 0 THEN Rat(unique_words, content_word_count)
    ELSE Rat(1, 2)

\* unique_words / content_word_count if content_word_count > 0 else 0
VocabularyRichness(unique_words, content_word_count) ==
    RatioOrZero(unique_words, content_word_count)

\* the record the try body of calculate_metrics stores
FullMetrics(text, nltk_ok, start_time, now) ==
    LET words == safe_tokenize(text, nltk_ok)
        word_count == Len(words)
        estimated_duration == EstimatedDuration(word_count, start_time, now)
        filler_count == FillerCount(words)
        sentence_count == AtLeastOne(Len(Sentences(text)))
        content_words == ContentWords(words)
    IN  [word_count |-> word_count,
         speaking_rate |-> SpeakingRate(word_count, estimated_duration),
         filler_count |-> filler_count,
         filler_ratio |-> RatioOrZero(filler_count, word_count),
         avg_sentence_length |-> Rat(word_count, sentence_count),
         vocabulary_richness |->
             VocabularyRichness(Distinct(content_words), Len(content_words)),
         duration_seconds |-> estimated_duration,
         sentence_count |-> sentence_count,
         unique_words |-> Distinct(content_words),
         content_words |-> Len(content_words)]

\* the record calculate_basic_metrics stores; a None text counts no words
BasicMetrics(text) ==
    LET words == IF text = NoneValue \/ text = <<>> THEN <<>>
                 ELSE SplitWs(text)
    IN  [word_count |-> Len(words),
         speaking_rate |-> Rat(120, 1),
         filler_count |-> 0,
         filler_ratio |-> Rat(0, 1),
         avg_sentence_length |-> Rat(15, 1),
         vocabulary_richness |-> Rat(1, 2),
         duration_seconds |-> Rat(60, 1),
         sentence_count |->
             IF text = NoneValue \/ text = <<>> THEN 1
             ELSE AtLeastOne(CountChar(text, ".")),
         unique_words |-> IF words # <<>> THEN Distinct(words) ELSE 0,
         content_words |-> Len(words)]

\* CalculateMetrics without the except clause: a failure leaves no record
CalculateMetricsNoFallback(text, nltk_ok, raises, start_time, now) ==
    IF text = NoneValue \/ raises THEN EmptyDict
    ELSE FullMetrics(text, nltk_ok, start_time, now)

\* calculate_metrics: the full record, or the basic one when the try body
\* raises (a None text makes safe_tokenize raise; raises = TRUE is any other
\* exception inside the try body)
CalculateMetrics(text, nltk_ok, raises, start_time, now) ==
    IF text = NoneValue \/ raises THEN BasicMetrics(text)
    ELSE FullMetrics(text, nltk_ok, start_time, now)

(***************************************************************************)
(* Sentiment (analyze_sentiment, analyze_live_sentiment).                  *)
(***************************************************************************)
\* a float field that holds None instead of a number
NotANumber == <<0, 0>>
IsNumber(r) == r[2] # 0

\* SentimentCategory with the thresholds inclusive
SentimentCategoryInclusive(polarity) ==
    IF RLe(Rat(1, 10), polarity) THEN "Positive"
    ELSE IF RLe(polarity, Rat(-1, 10)) THEN "Negative"
    ELSE "Neutral"

\* the category of analyze_sentiment for a polarity
SentimentCategory(polarity) ==
    IF RGt(polarity, Rat(1, 10)) THEN "Positive"
    ELSE IF RLt(polarity, Rat(-1, 10)) THEN "Negative"
    ELSE "Neutral"

\* the category of analyze_live_sentiment for a polarity
LiveSentimentCategory(polarity) ==
    IF RGt(polarity, Rat(1, 10)) THEN "Positive"
    ELSE IF RLt(polarity, Rat(-1, 10)) THEN "Negative"
    ELSE "Neutral"

\* the record analyze_sentiment stores for short text or a failed backend
NeutralSentiment ==
    [polarity |-> Rat(0, 1), subjectivity |-> Rat(1, 2), category |-> "Neutral"]

\* the record analyze_sentiment stores for what the backend returned
ScoredSentiment(score) ==
    [polarity |-> score.polarity,
     subjectivity |-> score.subjectivity,
     category |-> SentimentCategory(score.polarity)]

\* not text or len(text.strip()) < 5
MinTextLen == 5

\* TooShort measuring the text without trimming it
TooShortUntrimmed(text) == Len(text) < MinTextLen

TooShort(text) == text = <<>> \/ Len(StripOf(text, Whitespace)) < MinTextLen

(***************************************************************************)
(* generate_feedback.  A line is its leading symbol, its message and the   *)
(* values formatted into it (the format specs round them for display).     *)
(***************************************************************************)
Line(emoji, message, args) ==
    [emoji |-> emoji, message |-> message, args |-> args]

\* the lines the closing rule counts: "🟢" in f or "✅" in f or "✨" in f
AffirmingEmoji == {"GREEN_CIRCLE", "CHECK_MARK", "SPARKLES"}

NoMetricsLine ==
    Line("", "Analysis completed, but detailed metrics are not available.", <<>>)
FeedbackErrorLine ==
    Line("", "Analysis completed. Continue working on clear communication.", <<>>)

\* each step: whether evaluating it raises (a None where a number is
\* compared or divided), and the line it appends otherwise
SentimentStep(sentiment) ==
    LET sentiment_category == Get(sentiment, "category", "Neutral")
        sentiment_polarity == Get(sentiment, "polarity", Rat(0, 1))
    IN  IF sentiment_category = "Negative"
        THEN [raises |-> FALSE,
              line |-> Line("RED_CIRCLE", "Your tone appears somewhat negative.", <<>>)]
        ELSE IF sentiment_category = "Neutral" /\ ~IsNumber(sentiment_polarity)
        THEN [raises |-> TRUE, line |-> FeedbackErrorLine]
        ELSE IF sentiment_category = "Neutral"
                /\ RLt(sentiment_polarity, Rat(5, 100))
        THEN [raises |-> FALSE,
              line |-> Line("YELLOW_CIRCLE", "Your tone is quite neutral.", <<>>)]
        ELSE [raises |-> FALSE,
              line |-> Line("GREEN_CIRCLE", "Your positive tone creates an encouraging learning environment.", <<>>)]

\* PaceStep with 180 itself too fast
PaceStepInclusive(metrics) ==
    LET speaking_rate == Get(metrics, "speaking_rate", Rat(120, 1))
    IN  IF ~IsNumber(speaking_rate)
        THEN [raises |-> TRUE, line |-> FeedbackErrorLine]
        ELSE IF RLe(Rat(180, 1), speaking_rate)
        THEN [raises |-> FALSE,
              line |-> Line("HIGH_VOLTAGE", "Speaking rate - Too fast!", <<speaking_rate>>)]
        ELSE IF RLt(speaking_rate, Rat(90, 1))
        THEN [raises |-> FALSE,
              line |-> Line("SNAIL", "Speaking rate - Too slow.", <<speaking_rate>>)]
        ELSE [raises |-> FALSE,
              line |-> Line("CHECK_MARK", "Speaking rate - Well-balanced pace.", <<speaking_rate>>)]

PaceStep(metrics) ==
    LET speaking_rate == Get(metrics, "speaking_rate", Rat(120, 1))
    IN  IF ~IsNumber(speaking_rate)
        THEN [raises |-> TRUE, line |-> FeedbackErrorLine]
        ELSE IF RGt(speaking_rate, Rat(180, 1))
        THEN [raises |-> FALSE,
              line |-> Line("HIGH_VOLTAGE", "Speaking rate - Too fast!", <<speaking_rate>>)]
        ELSE IF RLt(speaking_rate, Rat(90, 1))
        THEN [raises |-> FALSE,
              line |-> Line("SNAIL", "Speaking rate - Too slow.", <<speaking_rate>>)]
        ELSE [raises |-> FALSE,
              line |-> Line("CHECK_MARK", "Speaking rate - Well-balanced pace.", <<speaking_rate>>)]

\* FillerStep with the high variant above a ratio of 0.10
FillerStepHighAboveTenth(metrics) ==
    LET filler_ratio == Get(metrics, "filler_ratio", Rat(0, 1))
        filler_count == Get(metrics, "filler_count", 0)
    IN  IF ~IsNumber(filler_ratio)
        THEN [raises |-> TRUE, line |-> FeedbackErrorLine]
        ELSE IF RGt(filler_ratio, Rat(10, 100))
        THEN [raises |-> FALSE,
              line |-> Line("POLICE_LIGHT", "High filler word usage", <<filler_ratio, filler_count>>)]
        ELSE IF RGt(filler_ratio, Rat(3, 100))
        THEN [raises |-> FALSE,
              line |-> Line("WARNING", "Moderate filler words - Room for improvement", <<filler_ratio>>)]
        ELSE [raises |-> FALSE,
              line |-> Line("SPARKLES", "Excellent! Very few filler words used.", <<>>)]

FillerStep(metrics) ==
    LET filler_ratio == Get(metrics, "filler_ratio", Rat(0, 1))
        filler_count == Get(metrics, "filler_count", 0)
    IN  IF ~IsNumber(filler_ratio)
        THEN [raises |-> TRUE, line |-> FeedbackErrorLine]
        ELSE IF RGt(filler_ratio, Rat(8, 100))
        THEN [raises |-> FALSE,
              line |-> Line("POLICE_LIGHT", "High filler word usage", <<filler_ratio, filler_count>>)]
        ELSE IF RGt(filler_ratio, Rat(3, 100))
        THEN [raises |-> FALSE,
              line |-> Line("WARNING", "Moderate filler words - Room for improvement", <<filler_ratio>>)]
        ELSE [raises |-> FALSE,
              line |-> Line("SPARKLES", "Excellent! Very few filler words used.", <<>>)]

VocabularyStep(metrics) ==
    LET vocabulary_richness == Get(metrics, "vocabulary_richness", Rat(1, 2))
    IN  IF ~IsNumber(vocabulary_richness)
        THEN [raises |-> TRUE, line |-> FeedbackErrorLine]
        ELSE IF RLt(vocabulary_richness, Rat(4, 10))
        THEN [raises |-> FALSE,
              line |-> Line("BOOKS", "Consider using more varied vocabulary to maintain interest.", <<>>)]
        ELSE IF RGt(vocabulary_richness, Rat(7, 10))
        THEN [raises |-> FALSE,
              line |-> Line("GRADUATION_CAP", "Rich vocabulary! Ensure it matches your audience level.", <<>>)]
        ELSE [raises |-> FALSE,
              line |-> Line("OPEN_BOOK", "Good vocabulary variety and accessibility.", <<>>)]

\* SummaryStep reporting the duration in seconds
SummaryStepSeconds(metrics) ==
    LET word_count == Get(metrics, "word_count", 0)
        duration == Get(metrics, "duration_seconds", Rat(60, 1))
    IN  IF ~IsNumber(duration)
        THEN [raises |-> TRUE, line |-> FeedbackErrorLine]
        ELSE [raises |-> FALSE,
              line |-> Line("BAR_CHART", "Session Summary: words in minutes",
                            <<word_count, duration>>)]

SummaryStep(metrics) ==
    LET word_count == Get(metrics, "word_count", 0)
        duration == Get(metrics, "duration_seconds", Rat(60, 1))
    IN  IF ~IsNumber(duration)
        THEN [raises |-> TRUE, line |-> FeedbackErrorLine]
        ELSE [raises |-> FALSE,
              line |-> Line("BAR_CHART", "Session Summary: words in minutes",
                            <<word_count, RDiv(duration, Rat(60, 1))>>)]

\* AffirmingCount counting the affirming vocabulary line as well
AffirmingCountWithVocabulary(feedback) ==
    Cardinality({i \in 1..Len(feedback) :
                    feedback[i].emoji \in AffirmingEmoji \cup {"OPEN_BOOK"}})

\* len([f for f in feedback if "🟢" in f or "✅" in f or "✨" in f])
AffirmingCount(feedback) ==
    Cardinality({i \in 1..Len(feedback) : feedback[i].emoji \in AffirmingEmoji})

ClosingLine(feedback) ==
    IF AffirmingCount(feedback) >= 2
    THEN Line("STAR", "Great job! You're demonstrating strong communication skills.", <<>>)
    ELSE Line("MUSCLE", "Keep practicing! Small improvements make a big difference.", <<>>)

\* the lines appended before the first step that raises, then the line of
\* the except clause; with no step raising, all lines and the closing
RECURSIVE RunSteps(_, _)
RunSteps(steps, feedback) ==
    IF steps = <<>> THEN Append(feedback, ClosingLine(feedback))
    ELSE IF Head(steps).raises THEN Append(feedback, FeedbackErrorLine)
    ELSE RunSteps(Tail(steps), Append(feedback, Head(steps).line))

\* the list generate_feedback returns and stores for a result record
GenerateFeedback(res) ==
    LET sentiment == Get(res, "sentiment", EmptyDict)
        metrics == Get(res, "metrics", EmptyDict)
    IN  IF DOMAIN metrics = {} THEN <<NoMetricsLine>>
        ELSE RunSteps(<<SentimentStep(sentiment), PaceStep(metrics),
                        FillerStep(metrics), VocabularyStep(metrics),
                        SummaryStep(metrics)>>, <<>>)

(***************************************************************************)
(* The collaborators' answers.                                             *)
(***************************************************************************)
\* what the sentiment backend returns: polarities on both sides of, and on,
\* the thresholds -0.1 and 0.1
Scores ==
    {[polarity |-> Rat(p, 100), subjectivity |-> Rat(1, 2)] :
        p \in {-11, -10, 10, 11}}

\* the backend raising instead of returning
BackendFails == [polarity |-> NotANumber, subjectivity |-> NotANumber]

BackendOutcomes == Scores \cup {BackendFails}

UnknownValueMessage ==
    <<"C", "o", "u", "l", "d", " ", "n", "o", "t", " ", "u", "n", "d", "e",
      "r", "s", "t", "a", "n", "d", " ", "a", "u", "d", "i", "o", " ", "c",
      "l", "e", "a", "r", "l", "y", ".", " ", "P", "l", "e", "a", "s", "e",
      " ", "t", "r", "y", " ", "w", "i", "t", "h", " ", "a", " ", "c", "l",
      "e", "a", "r", "e", "r", " ", "r", "e", "c", "o", "r", "d", "i", "n",
      "g", ".">>

\* f"Speech recognition service error: {e}" for one message e
RequestErrorMessage ==
    <<"S", "p", "e", "e", "c", "h", " ", "r", "e", "c", "o", "g", "n", "i",
      "t", "i", "o", "n", " ", "s", "e", "r", "v", "i", "c", "e", " ", "e",
      "r", "r", "o", "r", ":", " ", "r", "e", "c", "o", "g", "n", "i", "t",
      "i", "o", "n", " ", "c", "o", "n", "n", "e", "c", "t", "i", "o", "n",
      " ", "f", "a", "i", "l", "e", "d">>

\* f"Transcription failed: {str(e)}" for one message e
TranscriptionFailedMessage ==
    <<"T", "r", "a", "n", "s", "c", "r", "i", "p", "t", "i", "o", "n", " ",
      "f", "a", "i", "l", "e", "d", ":", " ", "b", "a", "d", " ", "a", "u",
      "d", "i", "o", " ", "f", "i", "l", "e">>

\* "Analysis failed: ", the head of the transcript of an error result
AnalysisFailedPrefix ==
    <<"A", "n", "a", "l", "y", "s", "i", "s", " ", "f", "a", "i", "l", "e",
      "d", ":", " ">>

\* str(e) of FileNotFoundError(f"Audio file not found: {audio_file}") for
\* one path
AudioFileNotFound ==
    <<"A", "u", "d", "i", "o", " ", "f", "i", "l", "e", " ",
      "n", "o", "t", " ", "f", "o", "u", "n", "d", ":", " ", "m", "i", "s",
      "s", "i", "n", "g", ".", "w", "a", "v">>

\* f"Analysis failed: {error_msg}" for the FileNotFoundError of one path
AnalysisFailedMessage == AnalysisFailedPrefix \o AudioFileNotFound

\* what recognising an existing audio file can end in
Recognitions ==
    {[kind |-> "recognized", text |-> t] : t \in Texts \ {<<>>}}
    \cup {[kind |-> k, text |-> <<>>] :
            k \in {"UnknownValueError", "RequestError", "Exception"}}

\* the transcript transcribe_audio stores and returns for an existing file
TranscribeAudio(recognition) ==
    CASE recognition.kind = "recognized" -> recognition.text
      [] recognition.kind = "UnknownValueError" -> UnknownValueMessage
      [] recognition.kind = "RequestError" -> RequestErrorMessage
      [] OTHER -> TranscriptionFailedMessage

(***************************************************************************)
(* The analyzer object, the clock, and who is calling.                     *)
(***************************************************************************)
VARIABLES
    results,          \* self.results, a dict
    is_recording,     \* self.is_recording
    live_transcript,  \* self.live_transcript
    start_time,       \* self.start_time; 0 is None
    mic_available,    \* self.mic_available
    nltk_ok,          \* whether word_tokenize has its resources
    now,              \* time.time(), in seconds
    pc,               \* "idle"; "loop_test": start_live_recording is at its
                      \* while test; "listening": it is in the loop body
    returned,         \* what the last call returned, if it was run_analysis_from_file
    last,             \* the name of the last call
    arg,              \* the inputs of the one call of SpecAnalysis, SpecFeedback
    req,              \* the /api/analyze requests (SpecWeb)
    upload_folder     \* the uploaded files by name (SpecWeb)

vars == <<results, is_recording, live_transcript, start_time, mic_available,
          nltk_ok, now, pc, returned, last, arg, req, upload_folder>>

\* self.results of __init__
InitialResults ==
    [transcript |-> <<>>, sentiment |-> EmptyDict, metrics |-> EmptyDict,
     feedback |-> <<>>]

\* create_error_results with the basic-metrics defaults in place of zeros
create_error_results_basic(error_msg) ==
    [transcript |-> AnalysisFailedPrefix \o error_msg,
     sentiment |-> NeutralSentiment,
     metrics |-> BasicMetrics(AnalysisFailedPrefix \o error_msg),
     feedback |-> <<Line("CROSS_MARK", "Analysis error", <<error_msg>>),
                    Line("", "Please check your audio file and try again.", <<>>)>>]

\* the dict create_error_results returns
create_error_results(error_msg) ==
    [transcript |-> AnalysisFailedPrefix \o error_msg,
     sentiment |-> NeutralSentiment,
     metrics |-> [word_count |-> 0, speaking_rate |-> Rat(0, 1),
                  filler_count |-> 0, filler_ratio |-> Rat(0, 1),
                  avg_sentence_length |-> Rat(0, 1),
                  vocabulary_richness |-> Rat(0, 1),
                  duration_seconds |-> Rat(0, 1),
                  sentence_count |-> 0, unique_words |-> 0,
                  content_words |-> 0],
     feedback |-> <<Line("CROSS_MARK", "Analysis error", <<error_msg>>),
                    Line("", "Please check your audio file and try again.", <<>>)>>]

\* returned: nothing, self.results itself (the same object), a new dict, the
\* transcript transcribe_audio returns or the list generate_feedback returns
TranscriptReturned(transcript) == [kind |-> "transcript", value |-> transcript]
SentimentReturned(sentiment) == [kind |-> "sentiment", value |-> sentiment]
FeedbackReturned(feedback) == [kind |-> "feedback", value |-> feedback]
NothingReturned == [kind |-> "none", value |-> EmptyDict]
ResultsReturned == [kind |-> "results", value |-> EmptyDict]
ErrorReturned(doc) == [kind |-> "error", value |-> doc]

\* the document the caller of run_analysis_from_file holds
ReturnedDoc == IF returned.kind = "results" THEN results ELSE returned.value

\* AnalyzeSentiment without the except clause: a backend failure leaves the
\* record as it was
AnalyzeSentimentNoExcept(res, text, backend, raises, tok_ok, started, clock) ==
    IF TooShort(text)
    THEN [res EXCEPT !.sentiment = NeutralSentiment,
                     !.metrics = BasicMetrics(text)]
    ELSE IF backend = BackendFails THEN res
    ELSE [res EXCEPT !.sentiment = ScoredSentiment(backend),
                     !.metrics = CalculateMetrics(text, tok_ok, raises,
                                                  started, clock)]

\* self.results after analyze_sentiment(text)
AnalyzeSentiment(res, text, backend, raises, tok_ok, started, clock) ==
    IF TooShort(text) \/ backend = BackendFails
    THEN [res EXCEPT !.sentiment = NeutralSentiment,
                     !.metrics = BasicMetrics(text)]
    ELSE [res EXCEPT !.sentiment = ScoredSentiment(backend),
                     !.metrics = CalculateMetrics(text, tok_ok, raises,
                                                  started, clock)]

\* self.results after generate_feedback()
StoreFeedback(res) == [res EXCEPT !.feedback = GenerateFeedback(res)]

\* self.results after analyze_sentiment(text); generate_feedback()
AnalyzeAndFeedback(res, text, backend, tok_ok, started, clock) ==
    StoreFeedback(AnalyzeSentiment(res, text, backend, FALSE, tok_ok,
                                   started, clock))

\* the live_metrics dict of analyze_live_sentiment()
LiveMetrics(transcript, tok_ok, started, clock) ==
    LET words == safe_tokenize(transcript, tok_ok)
        word_count == Len(words)
        elapsed_time == IF started # 0 THEN clock - started ELSE 1
        filler_count == FillerCount(words)
    IN  [word_count |-> word_count,
         speaking_rate |-> IF elapsed_time > 0
                           THEN Rat(word_count * 60, elapsed_time)
                           ELSE Rat(0, 1),
         filler_count |-> filler_count,
         filler_ratio |-> RatioOrZero(filler_count, word_count),
         session_time |-> Rat(elapsed_time, 1)]

\* AnalyzeLiveSentiment merging into the record: fields already there stay
AnalyzeLiveSentimentMerges(res, transcript, backend, tok_ok, started, clock) ==
    IF StripOf(transcript, Whitespace) = <<>> THEN res
    ELSE res @@
         [live_sentiment |->
              [category |-> LiveSentimentCategory(backend.polarity),
               polarity |-> backend.polarity],
          live_metrics |-> LiveMetrics(transcript, tok_ok, started, clock)]

\* self.results after analyze_live_sentiment()
AnalyzeLiveSentiment(res, transcript, backend, tok_ok, started, clock) ==
    IF StripOf(transcript, Whitespace) = <<>> THEN res
    ELSE [live_sentiment |->
              [category |-> LiveSentimentCategory(backend.polarity),
               polarity |-> backend.polarity],
          live_metrics |-> LiveMetrics(transcript, tok_ok, started, clock)]
         @@ res

NoArg == [text |-> <<>>, backend |-> BackendFails, raises |-> FALSE]

NoWeb == /\ req = <<>>
         /\ upload_folder = EmptyDict

(***************************************************************************)
(* SpecAnalysis: the analysis methods as functions of their inputs.  Init  *)
(* draws the text, the backend's answer, whether the try body of           *)
(* calculate_metrics raises, the tokenizer and the clock; one call of one  *)
(* method on a new analyzer follows.                                       *)
(***************************************************************************)
\* one word between blanks, and blanks alone
PaddedTexts ==
    {<<" ">> \o w \o <<" ">> : w \in Vocabulary} \cup {<<" ", " ">>}

AnalysisTexts == Texts \cup PaddedTexts \cup {NoneValue}

InitAnalysis ==
    /\ results = InitialResults
    /\ is_recording = FALSE
    /\ arg \in [text : AnalysisTexts, backend : BackendOutcomes,
                raises : BOOLEAN]
    /\ live_transcript =
          IF arg.text \in {NoneValue, <<>>} THEN <<>> ELSE <<" ">> \o arg.text
    /\ start_time \in {0, 1}
    /\ mic_available = TRUE
    /\ nltk_ok \in BOOLEAN
    /\ now \in 1..MaxTime
    /\ pc = "idle"
    /\ returned = NothingReturned
    /\ last = "__init__"
    /\ NoWeb

AnalysisFrame ==
    UNCHANGED <<is_recording, live_transcript, start_time, mic_available,
                nltk_ok, now, pc, arg, req, upload_folder>>

\* analyze_sentiment(text); text=None reads self.results['transcript']
CallAnalyzeSentiment ==
    /\ last = "__init__"
    /\ LET text == IF arg.text = NoneValue THEN results.transcript
                   ELSE arg.text
       IN  results' = AnalyzeSentiment(results, text, arg.backend, arg.raises,
                                       nltk_ok, start_time, now)
    /\ returned' = SentimentReturned(results'.sentiment)
    /\ last' = "analyze_sentiment"
    /\ AnalysisFrame

\* calculate_metrics(text)
CallCalculateMetrics ==
    /\ last = "__init__"
    /\ results' = [results EXCEPT !.metrics =
                      CalculateMetrics(arg.text, nltk_ok, arg.raises,
                                       start_time, now)]
    /\ last' = "calculate_metrics"
    /\ returned' = NothingReturned
    /\ AnalysisFrame

\* calculate_basic_metrics(text)
CallCalculateBasicMetrics ==
    /\ last = "__init__"
    /\ results' = [results EXCEPT !.metrics = BasicMetrics(arg.text)]
    /\ last' = "calculate_basic_metrics"
    /\ returned' = NothingReturned
    /\ AnalysisFrame

\* analyze_live_sentiment() on self.live_transcript
CallAnalyzeLiveSentiment ==
    /\ last = "__init__"
    /\ arg.backend # BackendFails
    /\ results' = AnalyzeLiveSentiment(results, live_transcript, arg.backend,
                                       nltk_ok, start_time, now)
    /\ last' = "analyze_live_sentiment"
    /\ returned' = NothingReturned
    /\ AnalysisFrame

\* run_analysis_from_file(audio_file) with a path that does not exist
CallRunAnalysisMissingFile ==
    /\ last = "__init__"
    /\ returned' = ErrorReturned(create_error_results(AudioFileNotFound))
    /\ last' = "run_analysis_from_file"
    /\ UNCHANGED results
    /\ AnalysisFrame

\* transcribe_audio(audio_file) on an existing file
CallTranscribeAudio ==
    /\ last = "__init__"
    /\ arg.text \notin {NoneValue, <<>>}
    /\ \E recognition \in Recognitions :
         /\ recognition.kind = "recognized" => recognition.text = arg.text
         /\ results' = [results EXCEPT !.transcript =
                           TranscribeAudio(recognition)]
         /\ returned' = TranscriptReturned(TranscribeAudio(recognition))
    /\ last' = "transcribe_audio"
    /\ AnalysisFrame

NextAnalysis ==
    \/ CallTranscribeAudio
    \/ CallAnalyzeSentiment
    \/ CallCalculateMetrics
    \/ CallCalculateBasicMetrics
    \/ CallAnalyzeLiveSentiment
    \/ CallRunAnalysisMissingFile

SpecAnalysis == InitAnalysis /\ [][NextAnalysis]_vars

(***************************************************************************)
(* Claims about the analysis methods (SpecAnalysis).                       *)
(***************************************************************************)
\* the metrics records the analyzer has stored or returned
MetricsRecords ==
    (IF DOMAIN results.metrics # {} THEN {results.metrics} ELSE {})
    \cup (IF returned.kind \in {"results", "error"}
          THEN {ReturnedDoc.metrics} ELSE {})

\* the text the last analyze_sentiment or calculate_metrics call worked on
AnalysedText == IF arg.text = NoneValue /\ last = "analyze_sentiment"
                THEN <<>> ELSE arg.text

\* results.metrics was computed by the try body of calculate_metrics
TookFullPath ==
    \/ last = "calculate_metrics" /\ arg.text # NoneValue /\ ~arg.raises
    \/ /\ last = "analyze_sentiment"
       /\ ~TooShort(AnalysedText)
       /\ arg.backend # BackendFails
       /\ ~arg.raises

\* results.metrics was built by calculate_basic_metrics
TookBasicPath ==
    /\ last \in {"calculate_metrics", "calculate_basic_metrics",
                 "analyze_sentiment"}
    /\ ~TookFullPath

CategoryMatches(sentiment) ==
    /\ sentiment.category = "Positive" <=> RGt(sentiment.polarity, Rat(1, 10))
    /\ sentiment.category = "Negative" <=> RLt(sentiment.polarity, Rat(-1, 10))
    /\ sentiment.category = "Neutral" <=>
          /\ RLe(sentiment.polarity, Rat(1, 10))
          /\ RLe(Rat(-1, 10), sentiment.polarity)

\* C1: in every sentiment record analyze_sentiment wrote and every
\* live_sentiment record analyze_live_sentiment wrote, category is Positive
\* iff polarity > 0.1, Negative iff polarity < -0.1, Neutral otherwise (0.1
\* and -0.1 are Neutral), and the live analysis gives a polarity the
\* category the full analysis gives it.
C1_CategoryThresholds ==
    /\ DOMAIN results.sentiment # {} => CategoryMatches(results.sentiment)
    /\ "live_sentiment" \in DOMAIN results =>
          /\ CategoryMatches(results.live_sentiment)
          /\ results.live_sentiment.category =
                ScoredSentiment(arg.backend).category

\* C1 witness: the full analysis stored the boundary polarity 0.1 as Neutral
C1_Witness ==
    /\ last = "analyze_sentiment"
    /\ TookFullPath
    /\ REq(results.sentiment.polarity, Rat(1, 10))
    /\ results.sentiment.category = "Neutral"

RichnessInUnitInterval(m) ==
    /\ RLe(Rat(0, 1), m.vocabulary_richness)
    /\ RLe(m.vocabulary_richness, Rat(1, 1))

RichnessIsQuotient(m) ==
    /\ m.content_words > 0 =>
          REq(m.vocabulary_richness, Rat(m.unique_words, m.content_words))
    /\ m.content_words = 0 => REq(m.vocabulary_richness, Rat(0, 1))

\* C2 as claimed: every metrics record stored or returned, whichever path
\* built it, has vocabulary_richness in [0,1], equal to unique_words /
\* content_words when content_words > 0 and to 0 otherwise.
C2_RichnessOnEveryPath ==
    \A m \in MetricsRecords : RichnessInUnitInterval(m) /\ RichnessIsQuotient(m)

\* C2 amended: vocabulary_richness is in [0,1] in every metrics record; it
\* is unique_words / content_words (0 without content words) in the record
\* the try body of calculate_metrics computes and in the create_error_results
\* record; the basic-metrics record carries the fixed default 0.5.
C2_RichnessByPath ==
    /\ \A m \in MetricsRecords : RichnessInUnitInterval(m)
    /\ TookFullPath => RichnessIsQuotient(results.metrics)
    /\ returned.kind = "error" => RichnessIsQuotient(ReturnedDoc.metrics)
    /\ TookBasicPath => REq(results.metrics.vocabulary_richness, Rat(1, 2))

\* C2 witness: the full path counted two content words, one distinct
C2_Witness ==
    /\ TookFullPath
    /\ results.metrics.content_words = 2
    /\ results.metrics.unique_words = 1
    /\ REq(results.metrics.vocabulary_richness, Rat(1, 2))

\* C3: every metrics record stored in results or returned to a caller has
\* sentence_count >= 1, the create_error_results record included.
C3_SentenceCountAtLeastOne ==
    \A m \in MetricsRecords : m.sentence_count >= 1

\* the tokens of a text that are fillers once case-folded and stripped
FillerTokens(tokens) ==
    {i \in 1..Len(tokens) :
        StripOf(Lower(tokens[i]), StripChars) \in filler_words}

FillerRatioConsistent(m) ==
    /\ m.word_count > 0 => REq(m.filler_ratio, Rat(m.filler_count, m.word_count))
    /\ m.word_count = 0 => REq(m.filler_ratio, Rat(0, 1))
    /\ 0 <= m.filler_count
    /\ m.filler_count <= m.word_count
    /\ RLe(Rat(0, 1), m.filler_ratio)
    /\ RLe(m.filler_ratio, Rat(1, 1))

\* results.metrics is the record of an analysis of AnalysedText
AnalysedSomeText ==
    /\ last \in {"calculate_metrics", "calculate_basic_metrics",
                 "analyze_sentiment"}
    /\ AnalysedText # NoneValue

\* C4 as claimed: in every metrics and live_metrics record filler_ratio is
\* filler_count / word_count when word_count > 0 and 0 when word_count = 0,
\* with 0 <= filler_count <= word_count and filler_ratio in [0,1], and
\* filler_count is the number of tokens of the analysed text that,
\* case-folded and stripped of '.,!?', are in the filler lexicon.
C4_FillerCountOnEveryPath ==
    /\ \A m \in MetricsRecords : FillerRatioConsistent(m)
    /\ "live_metrics" \in DOMAIN results =>
          /\ FillerRatioConsistent(results.live_metrics)
          /\ results.live_metrics.filler_count =
                Cardinality(FillerTokens(safe_tokenize(live_transcript, nltk_ok)))
    /\ AnalysedSomeText =>
          results.metrics.filler_count =
             Cardinality(FillerTokens(safe_tokenize(AnalysedText, nltk_ok)))

\* C4 amended: the ratio, the range and the bounds hold in every metrics and
\* live_metrics record; filler_count is the number of filler tokens where
\* the tokens are counted, in the try body of calculate_metrics and in
\* analyze_live_sentiment; the basic-metrics record carries filler_count 0
\* whatever the text.
C4_FillerRatio ==
    /\ \A m \in MetricsRecords : FillerRatioConsistent(m)
    /\ "live_metrics" \in DOMAIN results =>
          /\ FillerRatioConsistent(results.live_metrics)
          /\ results.live_metrics.filler_count =
                Cardinality(FillerTokens(safe_tokenize(live_transcript, nltk_ok)))
    /\ TookFullPath =>
          results.metrics.filler_count =
             Cardinality(FillerTokens(safe_tokenize(AnalysedText, nltk_ok)))
    /\ TookBasicPath => results.metrics.filler_count = 0

\* C4 witness: the whitespace fallback tokenised "Um, deep" and the filler
\* "um," was counted: one filler in two words
C4_Witness ==
    /\ TookFullPath
    /\ ~nltk_ok
    /\ results.metrics.word_count = 2
    /\ results.metrics.filler_count = 1
    /\ REq(results.metrics.filler_ratio, Rat(1, 2))

MetricsFields ==
    {"word_count", "speaking_rate", "filler_count", "filler_ratio",
     "avg_sentence_length", "vocabulary_richness", "duration_seconds",
     "sentence_count", "unique_words", "content_words"}

\* the try body of calculate_metrics failed
MetricsFailedInternally == arg.text = NoneValue \/ arg.raises

\* C10: calculate_metrics always returns leaving a record of all ten fields
\* in results.metrics; when its try body fails the record has word_count
\* from a whitespace split, speaking_rate 120, filler_count 0, filler_ratio
\* 0, avg_sentence_length 15, vocabulary_richness 0.5, duration_seconds 60.
C10_MetricsAlwaysComplete ==
    last = "calculate_metrics" =>
       /\ DOMAIN results.metrics = MetricsFields
       /\ MetricsFailedInternally =>
             /\ results.metrics.word_count =
                   IF arg.text = NoneValue THEN 0 ELSE Len(SplitWs(arg.text))
             /\ REq(results.metrics.speaking_rate, Rat(120, 1))
             /\ results.metrics.filler_count = 0
             /\ REq(results.metrics.filler_ratio, Rat(0, 1))
             /\ REq(results.metrics.avg_sentence_length, Rat(15, 1))
             /\ REq(results.metrics.vocabulary_richness, Rat(1, 2))
             /\ REq(results.metrics.duration_seconds, Rat(60, 1))

\* C10 witness: the try body failed on a text of two words
C10_Witness ==
    /\ last = "calculate_metrics"
    /\ arg.raises
    /\ arg.text # NoneValue
    /\ results.metrics.word_count = 2
    /\ REq(results.metrics.speaking_rate, Rat(120, 1))

(***************************************************************************)
(* SpecFeedback: generate_feedback as a function of the sentiment and      *)
(* metrics records.  Init draws the two records, values on both sides of   *)
(* and on every threshold, a None in place of a number, and records with   *)
(* keys missing; one call follows.                                         *)
(***************************************************************************)
Categories == {"Positive", "Negative", "Neutral"}

SentimentInputs ==
    {EmptyDict}
    \cup {[polarity |-> p, subjectivity |-> Rat(1, 2), category |-> c] :
            p \in {Rat(-20, 100), Rat(4, 100), Rat(5, 100), Rat(15, 100),
                   NotANumber},
            c \in Categories}

MetricsInputs ==
    {EmptyDict, [word_count |-> 17]}
    \cup {[word_count |-> 17, speaking_rate |-> rate, filler_count |-> 2,
           filler_ratio |-> ratio, avg_sentence_length |-> Rat(17, 2),
           vocabulary_richness |-> richness, duration_seconds |-> duration,
           sentence_count |-> 2, unique_words |-> 7, content_words |-> 10] :
            rate \in {Rat(89, 1), Rat(90, 1), Rat(180, 1), Rat(181, 1),
                      NotANumber},
            ratio \in {Rat(3, 100), Rat(4, 100), Rat(8, 100), Rat(9, 100),
                       NotANumber},
            richness \in {Rat(39, 100), Rat(4, 10), Rat(7, 10), Rat(71, 100),
                          NotANumber},
            duration \in {Rat(90, 1), NotANumber}}

InitFeedback ==
    /\ \E sentiment \in SentimentInputs, metrics \in MetricsInputs :
         results = [InitialResults EXCEPT !.sentiment = sentiment,
                                          !.metrics = metrics]
    /\ is_recording = FALSE
    /\ live_transcript = <<>>
    /\ start_time = 0
    /\ mic_available = TRUE
    /\ nltk_ok = TRUE
    /\ now = 1
    /\ pc = "idle"
    /\ returned = NothingReturned
    /\ last = "__init__"
    /\ arg = NoArg
    /\ NoWeb

\* generate_feedback()
CallGenerateFeedback ==
    /\ last = "__init__"
    /\ results' = StoreFeedback(results)
    /\ returned' = FeedbackReturned(GenerateFeedback(results))
    /\ last' = "generate_feedback"
    /\ UNCHANGED <<is_recording, live_transcript, start_time, mic_available,
                   nltk_ok, now, pc, arg, req, upload_folder>>

NextFeedback == CallGenerateFeedback

SpecFeedback == InitFeedback /\ [][NextFeedback]_vars

(***************************************************************************)
(* Claims about generate_feedback (SpecFeedback).                          *)
(***************************************************************************)
\* the dimension a line belongs to, by its leading symbol
Dimension(line) ==
    CASE line.emoji \in {"RED_CIRCLE", "YELLOW_CIRCLE", "GREEN_CIRCLE"} -> "sentiment"
      [] line.emoji \in {"HIGH_VOLTAGE", "SNAIL", "CHECK_MARK"} -> "pace"
      [] line.emoji \in {"POLICE_LIGHT", "WARNING", "SPARKLES"} -> "filler"
      [] line.emoji \in {"BOOKS", "GRADUATION_CAP", "OPEN_BOOK"} -> "vocabulary"
      [] line.emoji = "BAR_CHART" -> "summary"
      [] line.emoji \in {"STAR", "MUSCLE"} -> "closing"
      [] OTHER -> "none"

\* every field present in a dict of floats and ints is a number
NumericFields(d, float_fields) ==
    \A k \in DOMAIN d \cap float_fields : IsNumber(d[k])

\* generate_feedback was called on a sentiment record and a non-empty
\* metrics record whose fields are numbers
FeedbackOnNumericRecords ==
    /\ last = "generate_feedback"
    /\ DOMAIN results.metrics # {}
    /\ NumericFields(results.sentiment, {"polarity", "subjectivity"})
    /\ NumericFields(results.metrics,
                     {"speaking_rate", "filler_ratio", "avg_sentence_length",
                      "vocabulary_richness", "duration_seconds"})

\* the values generate_feedback reads, with its defaults for missing keys
ReadCategory == Get(results.sentiment, "category", "Neutral")
ReadPolarity == Get(results.sentiment, "polarity", Rat(0, 1))
ReadRate == Get(results.metrics, "speaking_rate", Rat(120, 1))
ReadFillerRatio == Get(results.metrics, "filler_ratio", Rat(0, 1))
ReadRichness == Get(results.metrics, "vocabulary_richness", Rat(1, 2))
ReadWordCount == Get(results.metrics, "word_count", 0)
ReadDuration == Get(results.metrics, "duration_seconds", Rat(60, 1))

\* C7: on a sentiment record and a non-empty metrics record with numeric
\* fields generate_feedback returns exactly 6 lines, one per dimension, in
\* the order sentiment, pace, filler, vocabulary, summary, closing, stores
\* that sequence in results.feedback, and the summary line carries
\* word_count and duration_seconds / 60.
C7_SixLinesInOrder ==
    FeedbackOnNumericRecords =>
       /\ Len(results.feedback) = 6
       /\ [i \in 1..6 |-> Dimension(results.feedback[i])] =
             <<"sentiment", "pace", "filler", "vocabulary", "summary",
               "closing">>
       /\ returned.kind = "feedback"
       /\ returned.value = results.feedback
       /\ results.feedback[5].args[1] = ReadWordCount
       /\ REq(results.feedback[5].args[2],
              Rat(ReadDuration[1], ReadDuration[2] * 60))

\* C7 witness: six lines came out of a full metrics record
C7_Witness ==
    /\ FeedbackOnNumericRecords
    /\ "duration_seconds" \in DOMAIN results.metrics
    /\ Len(results.feedback) = 6
    /\ results.feedback[5].args[1] = 17

\* C8: each rule-driven dimension emits the line of the first row of the
\* rule table whose condition holds, with strict inequalities; the values
\* 180, 90, 0.08, 0.03, 0.4 and 0.7 fall in the later row.
C8_RuleTable ==
    FeedbackOnNumericRecords =>
       LET fb == results.feedback
       IN  /\ fb[1].emoji = "RED_CIRCLE" <=> ReadCategory = "Negative"
           /\ fb[1].emoji = "YELLOW_CIRCLE" <=>
                 ReadCategory = "Neutral" /\ RLt(ReadPolarity, Rat(5, 100))
           /\ fb[1].emoji = "GREEN_CIRCLE" <=>
                 /\ ReadCategory # "Negative"
                 /\ ~(ReadCategory = "Neutral" /\ RLt(ReadPolarity, Rat(5, 100)))
           /\ fb[2].emoji = "HIGH_VOLTAGE" <=> RGt(ReadRate, Rat(180, 1))
           /\ fb[2].emoji = "SNAIL" <=> RLt(ReadRate, Rat(90, 1))
           /\ fb[2].emoji = "CHECK_MARK" <=>
                 RLe(Rat(90, 1), ReadRate) /\ RLe(ReadRate, Rat(180, 1))
           /\ fb[3].emoji = "POLICE_LIGHT" <=> RGt(ReadFillerRatio, Rat(8, 100))
           /\ fb[3].emoji = "WARNING" <=>
                 /\ RGt(ReadFillerRatio, Rat(3, 100))
                 /\ RLe(ReadFillerRatio, Rat(8, 100))
           /\ fb[3].emoji = "SPARKLES" <=> RLe(ReadFillerRatio, Rat(3, 100))
           /\ fb[4].emoji = "BOOKS" <=> RLt(ReadRichness, Rat(4, 10))
           /\ fb[4].emoji = "GRADUATION_CAP" <=> RGt(ReadRichness, Rat(7, 10))
           /\ fb[4].emoji = "OPEN_BOOK" <=>
                 RLe(Rat(4, 10), ReadRichness) /\ RLe(ReadRichness, Rat(7, 10))

\* C8 witness: every value on its boundary, each in the later row
C8_Witness ==
    /\ FeedbackOnNumericRecords
    /\ ReadCategory = "Neutral" /\ REq(ReadPolarity, Rat(5, 100))
    /\ REq(ReadRate, Rat(180, 1))
    /\ REq(ReadFillerRatio, Rat(8, 100))
    /\ REq(ReadRichness, Rat(7, 10))
    /\ results.feedback[1].emoji = "GREEN_CIRCLE"
    /\ results.feedback[2].emoji = "CHECK_MARK"
    /\ results.feedback[3].emoji = "WARNING"
    /\ results.feedback[4].emoji = "OPEN_BOOK"

\* how many of the sentiment, pace and filler lines are their affirming
\* variants
AffirmingOfThree(fb) ==
    (IF fb[1].emoji = "GREEN_CIRCLE" THEN 1 ELSE 0)
    + (IF fb[2].emoji = "CHECK_MARK" THEN 1 ELSE 0)
    + (IF fb[3].emoji = "SPARKLES" THEN 1 ELSE 0)

\* C9: the closing line is the success line iff at least two of the
\* sentiment, pace and filler lines are their affirming variants, else the
\* keep-practicing line; the vocabulary and summary lines never count.
C9_ClosingRule ==
    FeedbackOnNumericRecords =>
       LET fb == results.feedback
       IN  /\ fb[6].emoji = "STAR" <=> AffirmingOfThree(fb) >= 2
           /\ fb[6].emoji = "MUSCLE" <=> AffirmingOfThree(fb) < 2

\* C9 witness: one affirming line of the three and the affirming vocabulary
\* line: the closing is the keep-practicing line
C9_Witness ==
    /\ FeedbackOnNumericRecords
    /\ AffirmingOfThree(results.feedback) = 1
    /\ results.feedback[4].emoji = "OPEN_BOOK"
    /\ results.feedback[6].emoji = "MUSCLE"

(***************************************************************************)
(* Spec: the sessions of one analyzer.  File analyses, text analyses and   *)
(* live recordings follow one another on the same object; the clock        *)
(* advances between and during them.                                       *)
(***************************************************************************)
\* what the recogniser hears in a file: a text long enough to score and one
\* below the five-character limit
SessionTexts ==
    {<<"U", "m", ",", " ", "i", "d", "e", "a", ".">>, <<"d", "e", "e", "p">>}

\* what the recogniser hears in one live chunk; the empty chunk leaves the
\* transcript blank
Chunks == {<<"U", "m", ",">>, <<>>}

\* what the sentiment backend scores in a session; its failures are exercised
\* under SpecAnalysis
SessionBackends ==
    {[polarity |-> Rat(11, 100), subjectivity |-> Rat(1, 2)]}

\* what recognising a session's file ends in: one of the texts, or the
\* recogniser not understanding the audio
SessionRecognitions ==
    {r \in Recognitions :
        \/ r.kind = "recognized" /\ r.text \in SessionTexts
        \/ r.kind = "UnknownValueError"}

\* the number of chunks recognised so far in this live session: each one is
\* appended behind one blank
ChunksHeard == CountChar(live_transcript, " ")

Init ==
    /\ results = InitialResults
    /\ is_recording = FALSE
    /\ live_transcript = <<>>
    /\ start_time = 0
    /\ mic_available \in BOOLEAN
    \* the tokenizer's two modes are exercised under SpecAnalysis
    /\ nltk_ok = TRUE
    /\ now = 1
    /\ pc = "idle"
    /\ returned = NothingReturned
    /\ last = "__init__"
    /\ arg = NoArg
    /\ NoWeb

\* StopResults testing the transcript before it is stripped
StopResultsUnstripped(res, transcript, backend, tok_ok, started, clock) ==
    LET stripped == StripOf(transcript, Whitespace)
    IN  IF transcript # <<>>
        THEN AnalyzeAndFeedback([res EXCEPT !.transcript = stripped],
                                stripped, backend, tok_ok, started, clock)
        ELSE res

\* self.is_recording, self.results after stop_live_recording()
StopResults(res, transcript, backend, tok_ok, started, clock) ==
    LET stripped == StripOf(transcript, Whitespace)
    IN  IF stripped # <<>>
        THEN AnalyzeAndFeedback([res EXCEPT !.transcript = stripped],
                                stripped, backend, tok_ok, started, clock)
        ELSE res

\* time.time() moves on
Tick ==
    /\ now < MaxTime
    /\ now' = now + 1
    /\ UNCHANGED <<results, is_recording, live_transcript, start_time,
                   mic_available, nltk_ok, pc, returned, last, arg, req,
                   upload_folder>>

\* run_analysis_from_file(audio_file), os.path.exists(audio_file) false
RunAnalysisMissingFile ==
    /\ pc = "idle"
    /\ returned' = ErrorReturned(create_error_results(AudioFileNotFound))
    /\ last' = "run_analysis_from_file"
    /\ UNCHANGED <<results, is_recording, live_transcript, start_time,
                   mic_available, nltk_ok, now, pc, arg, req, upload_folder>>

\* run_analysis_from_file(audio_file) on an existing file
RunAnalysisFromFile ==
    /\ pc = "idle"
    /\ \E recognition \in SessionRecognitions, backend \in SessionBackends :
         LET transcript == TranscribeAudio(recognition)
         IN  results' = AnalyzeAndFeedback(
                            [results EXCEPT !.transcript = transcript],
                            transcript, backend, nltk_ok, start_time, now)
    /\ returned' = ResultsReturned
    /\ last' = "run_analysis_from_file"
    /\ UNCHANGED <<is_recording, live_transcript, start_time, mic_available,
                   nltk_ok, now, pc, arg, req, upload_folder>>

\* results['transcript'] = text; analyze_sentiment(text); generate_feedback()
AnalyzeText ==
    /\ pc = "idle"
    /\ \E text \in SessionTexts, backend \in SessionBackends :
         results' = AnalyzeAndFeedback([results EXCEPT !.transcript = text],
                                       text, backend, nltk_ok, start_time, now)
    /\ returned' = NothingReturned
    /\ last' = "analyze_text"
    /\ UNCHANGED <<is_recording, live_transcript, start_time, mic_available,
                   nltk_ok, now, pc, arg, req, upload_folder>>

\* start_live_recording() without a microphone: returns at once
StartLiveNoMicrophone ==
    /\ pc = "idle"
    /\ ~mic_available
    /\ returned' = NothingReturned
    /\ last' = "start_live_recording"
    /\ UNCHANGED <<results, is_recording, live_transcript, start_time,
                   mic_available, nltk_ok, now, pc, arg, req, upload_folder>>

\* start_live_recording(), calibrate_microphone() true: enters the loop
StartLiveRecording ==
    /\ pc = "idle"
    /\ mic_available
    /\ is_recording' = TRUE
    /\ start_time' = now
    /\ live_transcript' = <<>>
    /\ pc' = "loop_test"
    /\ returned' = NothingReturned
    /\ last' = "start_live_recording"
    /\ UNCHANGED <<results, mic_available, nltk_ok, now, arg, req,
                   upload_folder>>

\* start_live_recording(), calibrate_microphone() false: returns before the
\* try statement
StartLiveCalibrationFails ==
    /\ pc = "idle"
    /\ mic_available
    /\ is_recording' = TRUE
    /\ start_time' = now
    /\ live_transcript' = <<>>
    /\ returned' = NothingReturned
    /\ last' = "calibration_failed"
    /\ UNCHANGED <<results, mic_available, nltk_ok, now, pc, arg, req,
                   upload_folder>>

\* while self.is_recording is true: the loop body starts, listen() waits
ListenForChunk ==
    /\ pc = "loop_test"
    /\ is_recording
    /\ pc' = "listening"
    /\ UNCHANGED <<results, is_recording, live_transcript, start_time,
                   mic_available, nltk_ok, now, returned, last, arg, req,
                   upload_folder>>

\* the loop body: a chunk is recognised and analysed
ChunkRecognized ==
    /\ pc = "listening"
    /\ ChunksHeard < MaxChunks
    /\ \E chunk_text \in Chunks, backend \in SessionBackends \ {BackendFails} :
         /\ live_transcript' = live_transcript \o <<" ">> \o chunk_text
         /\ results' = AnalyzeLiveSentiment(results, live_transcript', backend,
                                            nltk_ok, start_time, now)
    /\ pc' = "loop_test"
    /\ last' = "chunk_recognized"
    /\ UNCHANGED <<is_recording, start_time, mic_available, nltk_ok, now,
                   returned, arg, req, upload_folder>>

\* ChunkSkipped ending the session as an unexpected exception does
ChunkSkippedAborts ==
    /\ pc = "listening"
    /\ \E backend \in SessionBackends :
         results' = StopResults(results, live_transcript, backend, nltk_ok,
                                start_time, now)
    /\ is_recording' = FALSE
    /\ pc' = "idle"
    /\ last' = "chunk_skipped"
    /\ UNCHANGED <<live_transcript, start_time, mic_available, nltk_ok, now,
                   returned, arg, req, upload_folder>>

\* the loop body: UnknownValueError or RequestError from the recogniser, or
\* WaitTimeoutError from listen
ChunkSkipped ==
    /\ pc = "listening"
    /\ pc' = "loop_test"
    /\ last' = "chunk_skipped"
    /\ UNCHANGED <<results, is_recording, live_transcript, start_time,
                   mic_available, nltk_ok, now, returned, arg, req,
                   upload_folder>>

\* the loop body: the chunk is recognised, analyze_live_sentiment raises;
\* except Exception, then finally: stop_live_recording()
ChunkAnalysisRaises ==
    /\ pc = "listening"
    /\ ChunksHeard < MaxChunks
    /\ \E chunk_text \in Chunks, backend \in SessionBackends :
         /\ live_transcript' = live_transcript \o <<" ">> \o chunk_text
         \* on a blank transcript analyze_live_sentiment returns at once
         /\ NonBlank(live_transcript')
         /\ results' = StopResults(results, live_transcript', backend, nltk_ok,
                                   start_time, now)
    /\ is_recording' = FALSE
    /\ pc' = "idle"
    /\ last' = "chunk_raised"
    /\ UNCHANGED <<start_time, mic_available, nltk_ok, now, returned, arg,
                   req, upload_folder>>

\* the loop body: the microphone or listen raises an exception other than
\* WaitTimeoutError; except Exception, then finally: stop_live_recording()
ListenRaises ==
    /\ pc = "listening"
    /\ \E backend \in SessionBackends :
         results' = StopResults(results, live_transcript, backend, nltk_ok,
                                start_time, now)
    /\ is_recording' = FALSE
    /\ pc' = "idle"
    /\ last' = "listen_raised"
    /\ UNCHANGED <<live_transcript, start_time, mic_available, nltk_ok, now,
                   returned, arg, req, upload_folder>>

\* KeyboardInterrupt in the loop: break, then finally: stop_live_recording()
InterruptRecording ==
    /\ pc = "listening"
    /\ \E backend \in SessionBackends :
         results' = StopResults(results, live_transcript, backend, nltk_ok,
                                start_time, now)
    /\ is_recording' = FALSE
    /\ pc' = "idle"
    /\ last' = "interrupted"
    /\ UNCHANGED <<live_transcript, start_time, mic_available, nltk_ok, now,
                   returned, arg, req, upload_folder>>

\* stop_live_recording() called from outside the loop
StopLiveRecording ==
    /\ is_recording
    /\ \E backend \in SessionBackends :
         results' = StopResults(results, live_transcript, backend, nltk_ok,
                                start_time, now)
    /\ is_recording' = FALSE
    /\ last' = "stop_live_recording"
    /\ UNCHANGED <<live_transcript, start_time, mic_available, nltk_ok, now,
                   pc, returned, arg, req, upload_folder>>

\* while self.is_recording is false: the loop ends, then finally:
\* stop_live_recording()
EndLiveRecording ==
    /\ pc = "loop_test"
    /\ ~is_recording
    /\ \E backend \in SessionBackends :
         results' = StopResults(results, live_transcript, backend, nltk_ok,
                                start_time, now)
    /\ pc' = "idle"
    /\ last' = "loop_ended"
    /\ UNCHANGED <<is_recording, live_transcript, start_time, mic_available,
                   nltk_ok, now, returned, arg, req, upload_folder>>

Next ==
    \/ Tick
    \/ RunAnalysisMissingFile
    \/ RunAnalysisFromFile
    \/ AnalyzeText
    \/ StartLiveNoMicrophone
    \/ StartLiveRecording
    \/ StartLiveCalibrationFails
    \/ ListenForChunk
    \/ ChunkRecognized
    \/ ChunkSkipped
    \/ ChunkAnalysisRaises
    \/ ListenRaises
    \/ InterruptRecording
    \/ StopLiveRecording
    \/ EndLiveRecording

Spec == Init /\ [][Next]_vars

(***************************************************************************)
(* Claims about sessions (Spec).                                           *)
(***************************************************************************)
\* a file analysis has just handed back the analyzer's result record
FileSessionReturned ==
    last = "run_analysis_from_file" /\ returned.kind = "results"

\* a live session has just begun and has recognised nothing yet
LiveSessionBegun ==
    last = "start_live_recording" /\ pc = "loop_test"

\* C5: the result record is session-scoped: the record a file analysis hands
\* back holds no live_sentiment or live_metrics, which no stage of a file
\* analysis produces, and the record a live session starts to fill is
\* freshly initialised.
C5_SessionScopedResults ==
    /\ FileSessionReturned =>
          DOMAIN ReturnedDoc \cap {"live_sentiment", "live_metrics"} = {}
    /\ LiveSessionBegun => results = InitialResults

(***************************************************************************)
(* SpecWeb: the web application.  One analyzer object, created when the    *)
(* module is imported, serves every /api/analyze request; the development  *)
(* server runs each request on a thread of its own, so the steps of        *)
(* analyze_audio interleave at every access to the analyzer's result       *)
(* record and to the upload folder.                                        *)
(***************************************************************************)
\* requests in flight at the same time
MaxRequests == 2

RequestIds == 1..MaxRequests

ALLOWED_EXTENSIONS == {"wav", "mp3", "ogg", "m4a", "flac"}

\* '.' in filename and filename.rsplit('.', 1)[1].lower() in ALLOWED_EXTENSIONS
allowed_file(filename) == filename.ext \in ALLOWED_EXTENSIONS

Filenames ==
    {[stem |-> "a", ext |-> "wav"], [stem |-> "b", ext |-> "wav"],
     [stem |-> "notes", ext |-> "txt"]}

\* an audio: what the recogniser hears in it and how the backend scores that
Audios ==
    {[text |-> <<"U", "m", ",", " ", "i", "d", "e", "a", ".">>,
      backend |-> [polarity |-> Rat(11, 100), subjectivity |-> Rat(1, 2)]],
     [text |-> <<"d", "e", "e", "p", " ", "i", "d", "e", "a", ".">>,
      backend |-> [polarity |-> Rat(-11, 100), subjectivity |-> Rat(1, 2)]]}

NoAudio == [text |-> <<>>, backend |-> BackendFails]

NoResponse == [status |-> 0, body |-> EmptyDict]

InvalidFileType == [error |-> "Invalid file type"]

\* a request: its position in analyze_audio, the uploaded file, the locals
\* audio_data and transcript, what run_analysis_from_file returned, and the
\* response sent
NewRequest(filename, audio) ==
    [pc |-> "received", filename |-> filename, audio |-> audio,
     audio_data |-> NoAudio, transcript |-> <<>>, results |-> NothingReturned,
     response |-> NoResponse]

InitWeb ==
    /\ results = InitialResults
    /\ is_recording = FALSE
    /\ live_transcript = <<>>
    /\ start_time = 0
    /\ mic_available = TRUE
    /\ nltk_ok = TRUE
    /\ now = 1
    /\ pc = "idle"
    /\ returned = NothingReturned
    /\ last = "__init__"
    /\ arg = NoArg
    /\ \E filename \in [RequestIds -> Filenames], audio \in [RequestIds -> Audios] :
         req = [r \in RequestIds |-> NewRequest(filename[r], audio[r])]
    /\ upload_folder = EmptyDict

WebFrame ==
    UNCHANGED <<is_recording, live_transcript, start_time, mic_available,
                nltk_ok, now, pc, returned, last, arg>>

\* the file type is not allowed: 400
RejectUpload(r) ==
    /\ req[r].pc = "received"
    /\ ~allowed_file(req[r].filename)
    /\ req' = [req EXCEPT ![r].pc = "done",
                          ![r].response = [status |-> 400,
                                           body |-> InvalidFileType]]
    /\ UNCHANGED <<results, upload_folder>>
    /\ WebFrame

\* file.save(file_path)
SaveUpload(r) ==
    /\ req[r].pc = "received"
    /\ allowed_file(req[r].filename)
    /\ upload_folder' = [f \in DOMAIN upload_folder \cup {req[r].filename} |->
                            IF f = req[r].filename THEN req[r].audio
                            ELSE upload_folder[f]]
    /\ req' = [req EXCEPT ![r].pc = "saved"]
    /\ UNCHANGED results
    /\ WebFrame

\* run_analysis_from_file: os.path.exists(audio_file) is true
FileFound(r) ==
    /\ req[r].pc = "saved"
    /\ req[r].filename \in DOMAIN upload_folder
    /\ req' = [req EXCEPT ![r].pc = "found"]
    /\ UNCHANGED <<results, upload_folder>>
    /\ WebFrame

\* run_analysis_from_file: os.path.exists(audio_file) is false;
\* FileNotFoundError, return self.create_error_results(str(e))
FileMissing(r) ==
    /\ req[r].pc = "saved"
    /\ req[r].filename \notin DOMAIN upload_folder
    /\ req' = [req EXCEPT ![r].pc = "analysed",
                          ![r].results = ErrorReturned(
                              create_error_results(AudioFileNotFound))]
    /\ UNCHANGED <<results, upload_folder>>
    /\ WebFrame

\* transcribe_audio: the file exists, recognizer.record(source) reads it
ReadAudio(r) ==
    /\ req[r].pc = "found"
    /\ req[r].filename \in DOMAIN upload_folder
    /\ req' = [req EXCEPT ![r].pc = "read",
                          ![r].audio_data = upload_folder[req[r].filename]]
    /\ UNCHANGED <<results, upload_folder>>
    /\ WebFrame

\* transcribe_audio: the file is gone, return "" and store nothing
ReadAudioMissing(r) ==
    /\ req[r].pc = "found"
    /\ req[r].filename \notin DOMAIN upload_folder
    /\ req' = [req EXCEPT ![r].pc = "transcribed", ![r].transcript = <<>>]
    /\ UNCHANGED <<results, upload_folder>>
    /\ WebFrame

\* transcribe_audio: self.results['transcript'] = transcript
StoreTranscript(r) ==
    /\ req[r].pc = "read"
    /\ results' = [results EXCEPT !.transcript = req[r].audio_data.text]
    /\ req' = [req EXCEPT ![r].pc = "transcribed",
                          ![r].transcript = req[r].audio_data.text]
    /\ UNCHANGED upload_folder
    /\ WebFrame

\* analyze_sentiment(transcript): self.results['sentiment'] = ...
StoreSentiment(r) ==
    /\ req[r].pc = "transcribed"
    /\ results' = [results EXCEPT !.sentiment =
                      AnalyzeSentiment(results, req[r].transcript,
                                       req[r].audio_data.backend, FALSE,
                                       nltk_ok, start_time, now).sentiment]
    /\ req' = [req EXCEPT ![r].pc = "scored"]
    /\ UNCHANGED upload_folder
    /\ WebFrame

\* analyze_sentiment(transcript): calculate_metrics or
\* calculate_basic_metrics stores self.results['metrics']
StoreMetrics(r) ==
    /\ req[r].pc = "scored"
    /\ results' = [results EXCEPT !.metrics =
                      AnalyzeSentiment(results, req[r].transcript,
                                       req[r].audio_data.backend, FALSE,
                                       nltk_ok, start_time, now).metrics]
    /\ req' = [req EXCEPT ![r].pc = "measured"]
    /\ UNCHANGED upload_folder
    /\ WebFrame

\* generate_feedback(); return self.results
FeedbackAndReturn(r) ==
    /\ req[r].pc = "measured"
    /\ results' = StoreFeedback(results)
    /\ req' = [req EXCEPT ![r].pc = "analysed", ![r].results = ResultsReturned]
    /\ UNCHANGED upload_folder
    /\ WebFrame

\* if os.path.exists(file_path): os.remove(file_path)
RemoveUpload(r) ==
    /\ req[r].pc = "analysed"
    /\ upload_folder' = [f \in DOMAIN upload_folder \ {req[r].filename} |->
                            upload_folder[f]]
    /\ req' = [req EXCEPT ![r].pc = "removed"]
    /\ UNCHANGED results
    /\ WebFrame

\* return jsonify(results): the analyzer's record as it is now, or the error
\* document
SendResponse(r) ==
    /\ req[r].pc = "removed"
    /\ req' = [req EXCEPT ![r].pc = "done",
                          ![r].response =
                              [status |-> 200,
                               body |-> IF req[r].results.kind = "results"
                                        THEN results
                                        ELSE req[r].results.value]]
    /\ UNCHANGED <<results, upload_folder>>
    /\ WebFrame

NextWeb ==
    \/ \E r \in RequestIds : RejectUpload(r)
    \/ \E r \in RequestIds : SaveUpload(r)
    \/ \E r \in RequestIds : FileFound(r)
    \/ \E r \in RequestIds : FileMissing(r)
    \/ \E r \in RequestIds : ReadAudio(r)
    \/ \E r \in RequestIds : ReadAudioMissing(r)
    \/ \E r \in RequestIds : StoreTranscript(r)
    \/ \E r \in RequestIds : StoreSentiment(r)
    \/ \E r \in RequestIds : StoreMetrics(r)
    \/ \E r \in RequestIds : FeedbackAndReturn(r)
    \/ \E r \in RequestIds : RemoveUpload(r)
    \/ \E r \in RequestIds : SendResponse(r)

SpecWeb == InitWeb /\ [][NextWeb]_vars

(***************************************************************************)
(* Claims about the web application (SpecWeb).                             *)
(***************************************************************************)
\* the document a file analysis returns for an audio analysed on its own
OwnDocument(audio) ==
    AnalyzeAndFeedback([InitialResults EXCEPT !.transcript = audio.text],
                       audio.text, audio.backend, nltk_ok, start_time, now)

\* no other request uploads under the same file name
OwnFilePath(r) ==
    \A q \in RequestIds \ {r} : req[q].filename # req[r].filename

\* C6: for every interleaving of /api/analyze requests, the document
\* returned to a request has transcript, sentiment, metrics and feedback all
\* derived from that request's own uploaded file; stated for the requests
\* whose upload no other request's upload can overwrite or remove.
C6_ResponseFromOwnUpload ==
    \A r \in RequestIds :
       /\ req[r].pc = "done"
       /\ req[r].response.status = 200
       /\ OwnFilePath(r)
       => req[r].response.body = OwnDocument(req[r].audio)

(***************************************************************************)
(* Claims about degraded analyses (SpecAnalysis).                          *)
(***************************************************************************)
\* the text is empty or has fewer than 5 characters once trimmed
ShortOrEmpty(text) == Len(StripOf(text, Whitespace)) < 5

\* the neutral default: polarity 0.0, subjectivity 0.5, category Neutral
IsNeutralDefault(sentiment) ==
    /\ DOMAIN sentiment = {"polarity", "subjectivity", "category"}
    /\ REq(sentiment.polarity, Rat(0, 1))
    /\ REq(sentiment.subjectivity, Rat(1, 2))
    /\ sentiment.category = "Neutral"

\* the basic-metrics record of a text: word_count and unique_words from a
\* whitespace split, sentence_count from the number of '.', fixed defaults
IsBasicRecordOf(m, text) ==
    /\ DOMAIN m = MetricsFields
    /\ m.word_count = Len(SplitWs(text))
    /\ m.content_words = Len(SplitWs(text))
    /\ m.unique_words = Cardinality({SplitWs(text)[i] : i \in 1..Len(SplitWs(text))})
    /\ m.sentence_count = (IF CountChar(text, ".") > 1 THEN CountChar(text, ".") ELSE 1)
    /\ REq(m.speaking_rate, Rat(120, 1))
    /\ m.filler_count = 0
    /\ REq(m.filler_ratio, Rat(0, 1))
    /\ REq(m.avg_sentence_length, Rat(15, 1))
    /\ REq(m.vocabulary_richness, Rat(1, 2))
    /\ REq(m.duration_seconds, Rat(60, 1))

\* C11: when the text given to analyze_sentiment is empty or has fewer than
\* 5 characters after trimming, results.sentiment becomes the neutral
\* default and results.metrics the basic-metrics record of that text,
\* whatever the backend would have answered (it is not asked).
C11_ShortTextNeutral ==
    last = "analyze_sentiment" /\ ShortOrEmpty(AnalysedText) =>
       /\ IsNeutralDefault(results.sentiment)
       /\ IsBasicRecordOf(results.metrics, AnalysedText)

\* C11 witness: a word between blanks, six characters long and four once
\* trimmed, with a backend that would have scored it Positive
C11_Witness ==
    /\ last = "analyze_sentiment"
    /\ arg.text = <<" ", "d", "e", "e", "p", " ">>
    /\ arg.backend # BackendFails
    /\ RGt(arg.backend.polarity, Rat(1, 10))
    /\ IsNeutralDefault(results.sentiment)
    /\ results.metrics.word_count = 1

\* C12: when the backend fails on a text of 5 or more characters,
\* analyze_sentiment returns and stores the neutral default and leaves in
\* results.metrics the basic-metrics record of the text, as the short-text
\* path does.
C12_BackendFailureNeutral ==
    /\ last = "analyze_sentiment"
    /\ ~ShortOrEmpty(AnalysedText)
    /\ arg.backend = BackendFails
    => /\ IsNeutralDefault(results.sentiment)
       /\ returned = SentimentReturned(results.sentiment)
       /\ IsBasicRecordOf(results.metrics, AnalysedText)

\* C12 witness: the backend failed on "Um, idea."
C12_Witness ==
    /\ last = "analyze_sentiment"
    /\ arg.text = <<"U", "m", ",", " ", "i", "d", "e", "a", ".">>
    /\ arg.backend = BackendFails
    /\ IsNeutralDefault(results.sentiment)
    /\ results.metrics.word_count = 2
    /\ results.metrics.sentence_count = 1

\* the sequence begins with the prefix
StartsWith(text, prefix) ==
    Len(text) >= Len(prefix) /\ SubSeq(text, 1, Len(prefix)) = prefix

\* the all-zero error defaults
IsErrorDefaults(m) ==
    /\ m.word_count = 0
    /\ REq(m.speaking_rate, Rat(0, 1))
    /\ m.filler_count = 0
    /\ REq(m.filler_ratio, Rat(0, 1))
    /\ REq(m.avg_sentence_length, Rat(0, 1))
    /\ REq(m.vocabulary_richness, Rat(0, 1))
    /\ REq(m.duration_seconds, Rat(0, 1))
    /\ m.unique_words = 0
    /\ m.content_words = 0

\* C13: run_analysis_from_file on a path that does not exist returns an
\* error result whose transcript begins with a failure description, whose
\* sentiment is the neutral default, whose feedback is non-empty and whose
\* metrics are the all-zero error defaults; no stage ran, so the analyzer's
\* own record is still the one __init__ created.
C13_MissingFileErrorResult ==
    last = "run_analysis_from_file" =>
       /\ returned.kind = "error"
       /\ StartsWith(ReturnedDoc.transcript, AnalysisFailedPrefix)
       /\ Len(ReturnedDoc.transcript) > Len(AnalysisFailedPrefix)
       /\ IsNeutralDefault(ReturnedDoc.sentiment)
       /\ Len(ReturnedDoc.feedback) >= 1
       /\ IsErrorDefaults(ReturnedDoc.metrics)
       /\ results = InitialResults

\* C13 witness: the error result for the missing path was returned
C13_Witness ==
    /\ last = "run_analysis_from_file"
    /\ returned.kind = "error"
    /\ ReturnedDoc.transcript = AnalysisFailedMessage
    /\ ReturnedDoc.metrics.word_count = 0

(***************************************************************************)
(* Claims about live sessions (Spec).                                      *)
(***************************************************************************)
\* start_live_recording has just returned for want of a microphone
LiveStartRefused ==
    last = "start_live_recording" /\ ~mic_available

\* C14: when a live session is asked to start without a microphone, the
\* result record's metrics, sentiment and feedback are populated with
\* degraded defaults, none of them left empty.
C14_NoMicrophoneDefaults ==
    LiveStartRefused =>
       /\ DOMAIN results.metrics # {}
       /\ DOMAIN results.sentiment # {}
       /\ results.feedback # <<>>

\* a step in which a chunk's capture timed out or its transcription failed
ChunkFailedStep ==
    pc = "listening" /\ pc' # "listening" /\ last' = "chunk_skipped"

\* such a chunk leaves the transcript, the record and is_recording as they
\* were and the loop goes back to its test
ChunkFailureSwallowed ==
    ChunkFailedStep =>
       /\ live_transcript' = live_transcript
       /\ results' = results
       /\ is_recording' = is_recording
       /\ pc' = "loop_test"

\* a step in which start_live_recording leaves its loop and returns
LoopEndsStep == pc \in {"loop_test", "listening"} /\ pc' = "idle"

StopStep ==
    \/ is_recording /\ ~is_recording' /\ last' = "stop_live_recording"
    \/ pc # "idle" /\ pc' = "idle"
          /\ last' \in {"interrupted", "loop_ended", "chunk_raised",
                        "listen_raised"}

\* the final pass: results.transcript is the whole trimmed live_transcript
\* and sentiment, metrics and feedback are computed from it
FinalPassStep ==
    /\ StopStep
    /\ NonBlank(live_transcript')
    /\ \E backend \in SessionBackends :
         results' = AnalyzeAndFeedback(
                        [results EXCEPT
                            !.transcript = StripOf(live_transcript', Whitespace)],
                        StripOf(live_transcript', Whitespace), backend,
                        nltk_ok, start_time, now)

\* an outside stop_live_recording() has made this session's final pass and
\* the loop has not yet tested is_recording again
FinalPassDone ==
    /\ pc = "loop_test"
    /\ ~is_recording
    /\ last = "stop_live_recording"
    /\ NonBlank(live_transcript)

\* C16: a live session that stops with a non-empty transcript makes the final
\* pass (transcript set to the trimmed live_transcript, then sentiment, then
\* feedback), and makes it once: after the pass of an outside stop the end of
\* the loop makes no other.
C16_OneFinalPass ==
    [][/\ StopStep /\ NonBlank(live_transcript') => FinalPassStep
       /\ FinalPassDone => ~FinalPassStep]_vars

\* stop_live_recording() finds the accumulated transcript empty or blank
EmptyStopStep == StopStep /\ ~NonBlank(live_transcript')

\* C17: a stop_live_recording() that finds live_transcript empty or blank
\* makes no final analysis: is_recording becomes false, transcript, sentiment,
\* metrics and feedback of the record stay as they were, and the call ends
\* without an error result or an exception
C17_EmptyStopNoAnalysis ==
    [][EmptyStopStep =>
          /\ ~is_recording'
          /\ results'.transcript = results.transcript
          /\ results'.sentiment = results.sentiment
          /\ results'.metrics = results.metrics
          /\ results'.feedback = results.feedback
          /\ returned' = returned]_vars

\* C17 witness: an outside stop has ended a session in which only a blank
\* chunk was heard, on an analyzer whose record holds an earlier analysis
C17_Witness ==
    /\ last = "stop_live_recording"
    /\ ~is_recording
    /\ live_transcript # <<>>
    /\ ~NonBlank(live_transcript)
    /\ results.feedback # <<>>

\* a file or a text has been analysed by the full path of calculate_metrics:
\* a session that has no start timestamp of its own
AnalysedWithoutStart ==
    /\ FileSessionReturned \/ last = "analyze_text"
    /\ ~TooShort(results.transcript)

\* duration_seconds and speaking_rate of record m follow the policy for the
\* elapsed time given
FollowsDurationPolicy(m, elapsed) ==
    /\ m.duration_seconds = RMax(elapsed, Rat(2 * m.word_count, 5))
    /\ m.speaking_rate = SpeakingRate(m.word_count, m.duration_seconds)

\* C18: duration_seconds is max(elapsed, word_count / 2.5) in a session with
\* a start timestamp, elapsed counted from that session's own start, and
\* max(60, word_count / 2.5) in a session without one, as a file or text
\* analysis is, whatever ran on the analyzer before; speaking_rate is
\* word_count / duration * 60, or 0 when the duration is not positive.
C18_DurationPolicy ==
    [][/\ AnalysedWithoutStart' =>
             FollowsDurationPolicy(results'.metrics, Rat(60, 1))
       /\ FinalPassStep /\ ~TooShort(results'.transcript) =>
             FollowsDurationPolicy(results'.metrics,
                                   Rat(now - start_time, 1))]_vars

\* the live fields of a result record, those it has
LiveFields(res) ==
    [k \in DOMAIN res \cap {"live_sentiment", "live_metrics"} |-> res[k]]

\* the loop of a live session has recognised a chunk and has run
\* analyze_live_sentiment()
LiveTickStep ==
    pc = "listening" /\ pc' = "loop_test" /\ last' = "chunk_recognized"

\* C19: live_sentiment and live_metrics change only in a live update of a
\* running live session; an update on a non-blank live_transcript replaces
\* both with values computed from the whole accumulated transcript and leaves
\* transcript, sentiment, metrics and feedback as they were; an update on a
\* blank live_transcript changes nothing.
C19_LiveFieldsOnlyByLiveTick ==
    [][/\ LiveFields(results') # LiveFields(results) => LiveTickStep
       /\ LiveTickStep /\ NonBlank(live_transcript') =>
             /\ \E backend \in SessionBackends :
                  results'.live_sentiment =
                     [category |-> LiveSentimentCategory(backend.polarity),
                      polarity |-> backend.polarity]
             /\ results'.live_metrics =
                   LiveMetrics(live_transcript', nltk_ok, start_time, now)
             /\ results'.transcript = results.transcript
             /\ results'.sentiment = results.sentiment
             /\ results'.metrics = results.metrics
             /\ results'.feedback = results.feedback
       /\ LiveTickStep /\ ~NonBlank(live_transcript') =>
             results' = results]_vars

\* C19 witness: the second update of a session has replaced the live fields
\* of the first, on a record that holds an earlier analysis
C19_Witness ==
    /\ last = "chunk_recognized"
    /\ ChunksHeard = 2
    /\ "live_metrics" \in DOMAIN results
    /\ results.live_metrics.word_count = 4
    /\ results.feedback # <<>>

(***************************************************************************)
(* SpecSample: one text of two sentences with two fillers is analysed on a *)
(* new analyzer, analyze_sentiment and then generate_feedback, for every   *)
(* answer of the sentiment backend and both modes of the tokenizer.        *)
(***************************************************************************)
SampleText ==
    <<"H", "e", "l", "l", "o", " ", "s", "t", "u", "d", "e", "n", "t", "s",
      ",", " ", "t", "o", "d", "a", "y", " ", "w", "e", " ", "w", "i", "l",
      "l", " ", "l", "e", "a", "r", "n", " ", "a", "b", "o", "u", "t", " ",
      "m", "a", "c", "h", "i", "n", "e", " ", "l", "e", "a", "r", "n", "i",
      "n", "g", ".", " ", "U", "m", ",", " ", "i", "t", "'", "s", " ", "i",
      "n", "t", "e", "r", "e", "s", "t", "i", "n", "g", " ", "a", "n", "d",
      ",", " ", "l", "i", "k", "e", ",", " ", "i", "t", " ", "h", "a", "s",
      " ", "a", "p", "p", "l", "i", "c", "a", "t", "i", "o", "n", "s", ".">>

\* results['transcript'] = text, then analyze_sentiment(text) or
\* analyze_sentiment()
InitSample ==
    /\ results = [InitialResults EXCEPT !.transcript = SampleText]
    /\ is_recording = FALSE
    /\ arg \in [text : {SampleText, NoneValue}, backend : BackendOutcomes,
                raises : BOOLEAN]
    /\ live_transcript = <<>>
    /\ start_time = 0
    /\ mic_available = TRUE
    /\ nltk_ok \in BOOLEAN
    /\ now \in 1..MaxTime
    /\ pc = "idle"
    /\ returned = NothingReturned
    /\ last = "__init__"
    /\ NoWeb

\* generate_feedback() after analyze_sentiment
FeedbackAfterAnalysis ==
    /\ last = "analyze_sentiment"
    /\ results' = StoreFeedback(results)
    /\ returned' = FeedbackReturned(GenerateFeedback(results))
    /\ last' = "generate_feedback"
    /\ AnalysisFrame

NextSample ==
    \/ CallAnalyzeSentiment
    \/ FeedbackAfterAnalysis

SpecSample == InitSample /\ [][NextSample]_vars

(***************************************************************************)
(* Claims about the sample text (SpecSample)                               *)
(***************************************************************************)
\* the positions of the lines of one dimension in a feedback list
LinesOf(feedback, dimension) ==
    {i \in 1..Len(feedback) : Dimension(feedback[i]) = dimension}

\* analyze_sentiment and generate_feedback have run on the sample text
SampleAnalysed == last = "generate_feedback"

\* the backend answered and the try body of calculate_metrics completed
SampleFullPath == arg.backend # BackendFails /\ ~arg.raises

\* sentence_count is 2 and the feedback has one pace line, one filler line
\* and a summary line with the record's word_count
SampleShape ==
    LET m == results.metrics
        fb == results.feedback
    IN  /\ m.sentence_count = 2
        /\ Cardinality(LinesOf(fb, "pace")) = 1
        /\ Cardinality(LinesOf(fb, "filler")) = 1
        /\ \E i \in LinesOf(fb, "summary") : fb[i].args[1] = m.word_count

\* C20 as claimed: the sample text yields filler_count 2, sentence_count 2,
\* one pace line, one filler line which is the moderate or the few variant,
\* and a summary line with the word count.
C20_SampleModerateOrFew ==
    SampleAnalysed =>
       /\ SampleShape
       /\ results.metrics.filler_count = 2
       /\ \A i \in LinesOf(results.feedback, "filler") :
             results.feedback[i].emoji \in {"WARNING", "SPARKLES"}

\* C20 amended: the sample text yields sentence_count 2, one pace line, one
\* filler line and a summary line with the word count; when the backend
\* answers and calculate_metrics completes, filler_count is 2 of 24 tokens
\* (17 with the whitespace tokenizer) and the filler line is the high
\* variant; in the degraded analysis filler_count is 0 of 17 words and the
\* filler line is the few variant.
C20_SampleHighFiller ==
    SampleAnalysed =>
       LET m == results.metrics
           fb == results.feedback
       IN  /\ SampleShape
           /\ SampleFullPath =>
                 /\ m.filler_count = 2
                 /\ m.word_count = IF nltk_ok THEN 24 ELSE 17
                 /\ \A i \in LinesOf(fb, "filler") :
                       /\ fb[i].emoji = "POLICE_LIGHT"
                       /\ fb[i].args = <<m.filler_ratio, 2>>
           /\ ~SampleFullPath =>
                 /\ m.filler_count = 0
                 /\ m.word_count = 17
                 /\ \A i \in LinesOf(fb, "filler") :
                       fb[i].emoji = "SPARKLES"

\* C20 witness: the full analysis with the nltk tokenizer: 2 fillers in 24
\* tokens, a ratio between 0.08 and 0.10
C20_Witness ==
    /\ SampleAnalysed
    /\ SampleFullPath
    /\ nltk_ok
    /\ results.metrics.filler_count = 2
    /\ results.metrics.word_count = 24
    /\ RGt(results.metrics.filler_ratio, Rat(8, 100))
    /\ RLt(results.metrics.filler_ratio, Rat(10, 100))

(***************************************************************************)
(* SpecPace: texts of few and of many words are analysed on an analyzer    *)
(* with and without a start timestamp: calculate_metrics,                  *)
(* calculate_basic_metrics, or analyze_sentiment and then                  *)
(* generate_feedback.                                                      *)
(***************************************************************************)
\* word counts on both sides of the 90 wpm limit of the pace line and of the
\* 150 words that fill the 60 second minimum
PaceWordCounts == {0, 3, 89, 90, 150, 151}

\* a text of n one-letter words
WordsRepeated(n) == [i \in 1..(2 * n - 1) |-> IF i % 2 = 1 THEN "a" ELSE " "]

PaceTexts == {WordsRepeated(n) : n \in PaceWordCounts}

PaceBackends == SessionBackends \cup {BackendFails}

InitPace ==
    /\ results = InitialResults
    /\ is_recording = FALSE
    /\ arg \in [text : PaceTexts, backend : PaceBackends, raises : BOOLEAN]
    /\ live_transcript = <<>>
    /\ start_time \in {0, 1}
    /\ mic_available = TRUE
    /\ nltk_ok \in BOOLEAN
    /\ now \in 1..MaxTime
    /\ pc = "idle"
    /\ returned = NothingReturned
    /\ last = "__init__"
    /\ NoWeb

NextPace ==
    \/ CallCalculateMetrics
    \/ CallCalculateBasicMetrics
    \/ CallAnalyzeSentiment
    \/ FeedbackAfterAnalysis

SpecPace == InitPace /\ [][NextPace]_vars

(***************************************************************************)
(* Claims about the pace (SpecPace)                                        *)
(***************************************************************************)
\* analyze_sentiment took the try body of calculate_metrics to its end
PaceFullPath ==
    ~TooShort(arg.text) /\ arg.backend # BackendFails /\ ~arg.raises

\* the feedback has a line with this leading symbol
HasLine(feedback, emoji) ==
    \E i \in 1..Len(feedback) : feedback[i].emoji = emoji

\* no metrics record has a speaking_rate above 150, and the feedback after
\* an analysis never has the too-fast line
RateAtMost150 ==
    /\ results.metrics # EmptyDict =>
          RLe(results.metrics.speaking_rate, Rat(150, 1))
    /\ last = "generate_feedback" =>
          ~HasLine(results.feedback, "HIGH_VOLTAGE")

\* C21 as claimed: speaking_rate is at most 150 in every metrics record, the
\* too-fast line never follows an analysis, and without a start timestamp
\* the too-slow line is there exactly when word_count < 90.
C21_SlowExactlyBelow90 ==
    /\ RateAtMost150
    /\ last = "generate_feedback" /\ start_time = 0 =>
          (HasLine(results.feedback, "SNAIL") <=>
              results.metrics.word_count < 90)

\* C21 amended: speaking_rate is at most 150 in every metrics record and the
\* too-fast line never follows an analysis; without a start timestamp the
\* too-slow line is there exactly when word_count < 90 if calculate_metrics
\* completed, and is never there after the basic metrics, whose rate is 120.
C21_RateAtMost150 ==
    /\ RateAtMost150
    /\ last = "generate_feedback" /\ start_time = 0 /\ PaceFullPath =>
          (HasLine(results.feedback, "SNAIL") <=>
              results.metrics.word_count < 90)
    /\ last = "generate_feedback" /\ ~PaceFullPath =>
          /\ REq(results.metrics.speaking_rate, Rat(120, 1))
          /\ HasLine(results.feedback, "CHECK_MARK")
          /\ ~HasLine(results.feedback, "SNAIL")

\* C21 witness: 89 words analysed a second after the start of a session: the
\* duration is the 35.6 seconds of the floor and the rate is 150
C21_Witness ==
    /\ last = "generate_feedback"
    /\ PaceFullPath
    /\ start_time = 1 /\ now = 2
    /\ results.metrics.word_count = 89
    /\ REq(results.metrics.speaking_rate, Rat(150, 1))

(***************************************************************************)
(* Claims about the recording flag (Spec)                                  *)
(***************************************************************************)
\* no start_live_recording() call is between its entry and its return
NoLiveCallInProgress == pc = "idle"

\* C22: in every state in which no start_live_recording call is in progress
\* is_recording is false, by whichever path the last call returned.
C22_NotRecordingAfterReturn == NoLiveCallInProgress => ~is_recording


====
